---- MODULE Spec2Model ----
(***************************************************************************)
(* Model of src/src/cover.cpp, the binning kernel of the Mapper package.   *)
(*                                                                         *)
(* Every exported function is a pure batch computation.  One call is       *)
(* modelled as a state machine of two positions: pc = "call" (arguments    *)
(* bound, body not yet run) and pc = "done" / pc = "stopped" (the call     *)
(* returned a value / left through Rcpp::stop).  The arguments of the call *)
(* are drawn in the initial state from bounded sets; the action of a       *)
(* function runs its whole body.                                           *)
(*                                                                         *)
(* Matrices are records [ncol, rows] with rows a sequence of rows, so that *)
(* a matrix without rows still has a number of columns, as in R.  All      *)
(* indices of the model are 1-based sequences positions; where the source  *)
(* uses a 0-based C++ index the translation is noted.                      *)
(*                                                                         *)
(* Where the source computes with doubles (the range tests with eps, the   *)
(* bounds of the fixed grid, the distances of dist_to_boxes) the model     *)
(* computes with IEEE-754 binary64 numbers, every operation rounded to     *)
(* nearest, ties to even.  The boxes of createCoverMap are only compared,  *)
(* never computed with; their coordinates are small integers.              *)
(***************************************************************************)
EXTENDS Integers, Sequences, FiniteSets

VARIABLES fn, args, pc, ret

vars == <<fn, args, pc, ret>>

(***************************************************************************)
(* Bounds of the model.                                                    *)
(***************************************************************************)
MaxRows == 2

MaxWidth == 3

(***************************************************************************)
(* Generic helpers.                                                        *)
(***************************************************************************)
Matrix(n, c, V) ==
    {[ncol |-> c, rows |-> r] : r \in [1..n -> [1..c -> V]]}

nrow(m) == Len(m.rows)

RECURSIVE SeqSum(_)
SeqSum(s) ==
    IF s = <<>> THEN 0 ELSE Head(s) + SeqSum(Tail(s))

RECURSIVE Flatten(_)
Flatten(ss) ==
    IF ss = <<>> THEN <<>> ELSE Head(ss) \o Flatten(Tail(ss))

\* R's NA_integer_, the value IntegerVector::is_na tests for (INT_MIN).
NA == -2147483647 - 1

(***************************************************************************)
(* IEEE-754 binary64 arithmetic.                                           *)
(*                                                                         *)
(* Natural numbers of any size are little-endian sequences of limbs in     *)
(* base 2^15 without leading zero limbs (<<>> is 0).  A dyadic number is a *)
(* record [s, m, e] standing for (-1)^s * m * 2^e; a double is a dyadic    *)
(* whose m has exactly 53 bits, or the zero [s |-> 0, m |-> <<>>, e |-> 0].*)
(* Every operation on doubles is the exact operation followed by rounding  *)
(* to nearest, ties to even.  Subnormals, infinities and NaN are outside   *)
(* the model: the values of the model stay far from both ends of the       *)
(* exponent range.                                                         *)
(***************************************************************************)
Limb == 32768

RECURSIVE Pow2(_)
Pow2(n) == IF n = 0 THEN 1 ELSE 2 * Pow2(n - 1)

RECURSIVE BStrip(_)
BStrip(a) ==
    IF a = <<>> THEN a
    ELSE IF a[Len(a)] = 0 THEN BStrip(SubSeq(a, 1, Len(a) - 1))
    ELSE a

RECURSIVE BFromInt(_)
BFromInt(n) ==
    IF n = 0 THEN <<>> ELSE <<n % Limb>> \o BFromInt(n \div Limb)

RECURSIVE BAddC(_, _, _)
BAddC(a, b, c) ==
    IF a = <<>> /\ b = <<>> THEN (IF c = 0 THEN <<>> ELSE <<c>>)
    ELSE LET x == (IF a = <<>> THEN 0 ELSE Head(a))
                  + (IF b = <<>> THEN 0 ELSE Head(b)) + c
         IN  <<x % Limb>> \o BAddC(IF a = <<>> THEN a ELSE Tail(a),
                                   IF b = <<>> THEN b ELSE Tail(b),
                                   x \div Limb)

BAdd(a, b) == BAddC(a, b, 0)

\* a - b - c for a >= b + c, before the leading zeros are stripped.
RECURSIVE BSubC(_, _, _)
BSubC(a, b, c) ==
    IF a = <<>> THEN <<>>
    ELSE LET x == Head(a) - (IF b = <<>> THEN 0 ELSE Head(b)) - c
         IN  <<(x + Limb) % Limb>>
             \o BSubC(Tail(a), IF b = <<>> THEN b ELSE Tail(b), IF x < 0 THEN 1 ELSE 0)

BSub(a, b) == BStrip(BSubC(a, b, 0))

\* -1, 0 or 1 as the limbs of a and b from position i down compare.
RECURSIVE BCmpFrom(_, _, _)
BCmpFrom(a, b, i) ==
    IF i = 0 THEN 0
    ELSE IF a[i] < b[i] THEN -1
    ELSE IF a[i] > b[i] THEN 1
    ELSE BCmpFrom(a, b, i - 1)

BCmp(a, b) ==
    IF Len(a) < Len(b) THEN -1
    ELSE IF Len(a) > Len(b) THEN 1
    ELSE BCmpFrom(a, b, Len(a))

\* a * k + c for 0 <= k < Limb.
RECURSIVE BMulSmall(_, _, _)
BMulSmall(a, k, c) ==
    IF a = <<>> THEN (IF c = 0 THEN <<>> ELSE <<c>>)
    ELSE LET x == Head(a) * k + c
         IN  <<x % Limb>> \o BMulSmall(Tail(a), k, x \div Limb)

RECURSIVE BMul(_, _)
BMul(a, b) ==
    IF a = <<>> \/ b = <<>> THEN <<>>
    ELSE BStrip(BAdd(BMulSmall(a, Head(b), 0), <<0>> \o BMul(a, Tail(b))))

\* a * 2^n.
BShl(a, n) ==
    IF a = <<>> THEN a
    ELSE [i \in 1..(n \div 15) |-> 0] \o BStrip(BMulSmall(a, Pow2(n % 15), 0))

\* floor(a / k) for 0 < k < Limb, from limb i down with remainder r.
RECURSIVE BDivSmallFrom(_, _, _, _)
BDivSmallFrom(a, k, i, r) ==
    IF i = 0 THEN <<>>
    ELSE LET x == r * Limb + a[i]
         IN  BDivSmallFrom(a, k, i - 1, x % k) \o <<x \div k>>

\* floor(a / 2^n).
BShr(a, n) ==
    IF n \div 15 >= Len(a) THEN <<>>
    ELSE LET hi == SubSeq(a, (n \div 15) + 1, Len(a))
         IN  BStrip(BDivSmallFrom(hi, Pow2(n % 15), Len(hi), 0))

RECURSIVE SmallBitLen(_)
SmallBitLen(n) == IF n = 0 THEN 0 ELSE 1 + SmallBitLen(n \div 2)

BitLen(a) ==
    IF a = <<>> THEN 0 ELSE 15 * (Len(a) - 1) + SmallBitLen(a[Len(a)])

BOdd(a) == a # <<>> /\ a[1] % 2 = 1

Zero == [s |-> 0, m |-> <<>>, e |-> 0]

\* The same number without zero limbs at the low end of m.
RECURSIVE XTrim(_)
XTrim(a) ==
    IF a.m # <<>> /\ Head(a.m) = 0
    THEN XTrim([s |-> a.s, m |-> Tail(a.m), e |-> a.e + 15])
    ELSE a

Dyadic(s, m, e) == IF m = <<>> THEN Zero ELSE XTrim([s |-> s, m |-> m, e |-> e])

XNeg(a) == IF a.m = <<>> THEN Zero ELSE [s |-> 1 - a.s, m |-> a.m, e |-> a.e]

\* The exact sum of two dyadic numbers.
XAdd(a, b) ==
    IF a.m = <<>> THEN b
    ELSE IF b.m = <<>> THEN a
    ELSE LET x == XTrim(a)
             y == XTrim(b)
             e == IF x.e < y.e THEN x.e ELSE y.e
             xm == BShl(x.m, x.e - e)
             ym == BShl(y.m, y.e - e)
             c == BCmp(xm, ym)
         IN  IF x.s = y.s THEN Dyadic(x.s, BAdd(xm, ym), e)
             ELSE IF c = 0 THEN Zero
             ELSE IF c > 0 THEN Dyadic(x.s, BSub(xm, ym), e)
             ELSE Dyadic(y.s, BSub(ym, xm), e)

XSub(a, b) == XAdd(a, XNeg(b))

\* The exact product of two dyadic numbers.
XMul(a, b) ==
    LET x == XTrim(a)
        y == XTrim(b)
    IN  Dyadic((x.s + y.s) % 2, BMul(x.m, y.m), x.e + y.e)

\* a <= b, exactly.
XLeq(a, b) ==
    LET d == XSub(a, b) IN d.m = <<>> \/ d.s = 1

XAbs(a) == IF a.m = <<>> THEN Zero ELSE [s |-> 0, m |-> a.m, e |-> a.e]

\* The double nearest to the dyadic number a, ties to even.
Round(a) ==
    LET n == BitLen(a.m) IN
    IF n = 0 THEN Zero
    ELSE IF n <= 53 THEN [s |-> a.s, m |-> BShl(a.m, 53 - n), e |-> a.e - (53 - n)]
    ELSE LET sh == n - 53
             q == BShr(a.m, sh)
             rem == BSub(a.m, BShl(q, sh))
             c == BCmp(rem, BShl(<<1>>, sh - 1))
             up == c > 0 \/ (c = 0 /\ BOdd(q))
             q1 == IF up THEN BAdd(q, <<1>>) ELSE q
         IN  IF BitLen(q1) = 54
             THEN [s |-> a.s, m |-> BShr(q1, 1), e |-> a.e + sh + 1]
             ELSE [s |-> a.s, m |-> q1, e |-> a.e + sh]

\* The first n bits of r / d, as <<quotient, remainder>>: one step of
\* restoring division per bit.  The test on Len(q), never true, has the
\* quotient evaluated at every step rather than at the end.
RECURSIVE DivLoop(_, _, _, _)
DivLoop(r, d, n, q) ==
    IF n = 0 \/ Len(q) < 0 THEN <<q, r>>
    ELSE IF BCmp(r, d) >= 0
    THEN DivLoop(BMulSmall(BSub(r, d), 2, 0), d, n - 1, BMulSmall(q, 2, 1))
    ELSE DivLoop(BMulSmall(r, 2, 0), d, n - 1, BMulSmall(q, 2, 0))

FromInt(i) == Round(Dyadic(IF i < 0 THEN 1 ELSE 0, BFromInt(IF i < 0 THEN -i ELSE i), 0))

DAdd(a, b) == Round(XAdd(a, b))

DSub(a, b) == Round(XSub(a, b))

DMul(a, b) == Round(XMul(a, b))

\* a / b for doubles a and b # 0.  A power of two divides exactly; any other
\* quotient is 57 bits and a sticky bit for the remainder, rounded.
DDiv(a, b) ==
    IF a.m = <<>> THEN Zero
    ELSE IF b.m = BShl(<<1>>, 52)
    THEN [s |-> (a.s + b.s) % 2, m |-> a.m, e |-> a.e - b.e - 52]
    ELSE LET qr == DivLoop(a.m, b.m, 57, <<>>)
             sticky == IF qr[2] = <<>> THEN 0 ELSE 1
         IN  Round(Dyadic((a.s + b.s) % 2, BMulSmall(qr[1], 2, sticky), a.e - b.e - 57))

DLeq(a, b) == XLeq(a, b)

\* The double a decimal literal n/d denotes: the one nearest to n / d.
Literal(frac) == DDiv(FromInt(frac[1]), FromInt(frac[2]))

(***************************************************************************)
(* Exact fractions, for the formulas of the claims: a fraction is a record *)
(* [n, d] of two dyadic numbers with d > 0.  A double agrees with a        *)
(* fraction up to rounding when they differ by at most 2^-40: far more     *)
(* than the rounding of the few operations of a function on values below   *)
(* 32, far less than the difference between two formulas.                  *)
(***************************************************************************)
QFrom(a) == [n |-> a, d |-> FromInt(1)]

QInt(i) == QFrom(FromInt(i))

QAdd(p, q) == [n |-> XAdd(XMul(p.n, q.d), XMul(q.n, p.d)), d |-> XMul(p.d, q.d)]

QSub(p, q) == [n |-> XSub(XMul(p.n, q.d), XMul(q.n, p.d)), d |-> XMul(p.d, q.d)]

QMul(p, q) == [n |-> XMul(p.n, q.n), d |-> XMul(p.d, q.d)]

QDiv(p, q) ==
    [n |-> XMul(p.n, IF q.n.s = 1 THEN XNeg(q.d) ELSE q.d), d |-> XMul(p.d, XAbs(q.n))]

QLeq(p, q) == XLeq(XMul(p.n, q.d), XMul(q.n, p.d))

QAbs(p) == [n |-> XAbs(p.n), d |-> p.d]

Tolerance == QFrom(Dyadic(0, <<1>>, -40))

\* The double a agrees with the fraction q up to rounding.
UpToRounding(a, q) == QLeq(QAbs(QSub(QFrom(a), q)), Tolerance)

(***************************************************************************)
(* valid_pairs (cover.cpp 20-41).                                          *)
(***************************************************************************)
\* The inner loop over j = 1 .. d-1 of one row (0-based columns 1 .. d-1 are
\* positions 2 .. d here); pairs[0] is position 1.
RECURSIVE row_pairs_unchecked(_, _)
row_pairs_unchecked(pairs, j) ==
    IF j > Len(pairs) THEN <<>>
    ELSE << <<pairs[1], pairs[j]>> >> \o row_pairs_unchecked(pairs, j + 1)

RECURSIVE row_pairs(_, _)
row_pairs(pairs, j) ==
    IF j > Len(pairs) THEN <<>>
    ELSE (IF pairs[j] # NA THEN << <<pairs[1], pairs[j]>> >> ELSE <<>>)
         \o row_pairs(pairs, j + 1)

\* The outer loop over the rows and the copy into the n_valid x 2 result.
valid_pairs(level_set_pairs) ==
    [ncol |-> 2,
     rows |-> Flatten([i \in 1..nrow(level_set_pairs) |->
                          row_pairs(level_set_pairs.rows[i], 2)])]

\* The entries of a candidate table: bin ids and the sentinel.
TableEntries == {1, 2, NA}

\* Every table of up to MaxRows rows and 1 to MaxWidth columns.
InitValidPairs ==
    /\ fn = "valid_pairs"
    /\ \E n \in 0..MaxRows, w \in 1..MaxWidth :
          \E t \in Matrix(n, w, TableEntries) : args = [level_set_pairs |-> t]
    /\ pc = "call"
    /\ ret = <<>>

CallValidPairs ==
    /\ fn = "valid_pairs"
    /\ pc = "call"
    /\ ret' = valid_pairs(args.level_set_pairs)
    /\ pc' = "done"
    /\ UNCHANGED <<fn, args>>

NextValidPairs == CallValidPairs

SpecValidPairs == InitValidPairs /\ [][NextValidPairs]_vars

----
\* Claims about valid_pairs.

ValidPairsDone == fn = "valid_pairs" /\ pc = "done"

countNonSentinel(t) ==
    SeqSum([i \in 1..nrow(t) |->
               Cardinality({j \in 1..t.ncol : t.rows[i][j] # NA})])

countNonSentinelCandidates(t) ==
    SeqSum([i \in 1..nrow(t) |->
               Cardinality({j \in 2..t.ncol : t.rows[i][j] # NA})])

\* C5 as stated: no emitted pair holds the sentinel in either position, and
\* the number of emitted pairs is the number of non-sentinel entries of the
\* whole table.
C5_AsStated ==
    ValidPairsDone =>
        /\ \A k \in 1..nrow(ret) : ret.rows[k][1] # NA /\ ret.rows[k][2] # NA
        /\ nrow(ret) = countNonSentinel(args.level_set_pairs)

\* C5 amended: no emitted pair holds the sentinel as destination; the source
\* is the row's first entry, copied unchecked, so it is sentinel-free whenever
\* the first column is; and the number of emitted pairs is the number of
\* non-sentinel entries in the candidate columns (all columns but the first).
C5_Amended ==
    ValidPairsDone =>
        LET t == args.level_set_pairs IN
        /\ \A k \in 1..nrow(ret) : ret.rows[k][2] # NA
        /\ \A k \in 1..nrow(ret) : \E i \in 1..nrow(t) : ret.rows[k][1] = t.rows[i][1]
        /\ (\A i \in 1..nrow(t) : t.rows[i][1] # NA)
              => \A k \in 1..nrow(ret) : ret.rows[k][1] # NA
        /\ nrow(ret) = countNonSentinelCandidates(t)

\* A two-row, three-column table whose first row has a sentinel between its
\* id and a real candidate and whose second row has two real candidates,
\* compacted to three pairs.
C5_Witness ==
    /\ ValidPairsDone
    /\ args.level_set_pairs.rows = << <<1, NA, 2>>, <<2, 1, 2>> >>
    /\ ret.rows = << <<1, 2>>, <<2, 1>>, <<2, 2>> >>

(***************************************************************************)
(* edgelist_to_adjacencylist (cover.cpp 188-203).                          *)
(*                                                                         *)
(* The std::map<int, std::vector<int>> is a sequence of <<key, vector>>    *)
(* entries kept in ascending key order, which is the order the iteration   *)
(* inside wrap() visits them in.                                           *)
(***************************************************************************)
MaxEdges == 3

MaxVertex == 3

\* std::map::lower_bound: position of the first entry whose key is not less
\* than `key`; Len + 1 stands for end().
RECURSIVE lower_bound(_, _, _)
lower_bound(vertex_map, key, it) ==
    IF it > Len(vertex_map) THEN it
    ELSE IF vertex_map[it][1] >= key THEN it
    ELSE lower_bound(vertex_map, key, it + 1)

\* A loop body that starts a fresh vector for every edge and never appends.
add_edge_no_append(vertex_map, from, to) ==
    LET it == lower_bound(vertex_map, from, 1) IN
    IF it <= Len(vertex_map) /\ vertex_map[it][1] = from
    THEN [vertex_map EXCEPT ![it] = <<from, <<to>> >>]
    ELSE SubSeq(vertex_map, 1, it - 1) \o << <<from, <<to>> >> >>
         \o SubSeq(vertex_map, it, Len(vertex_map))

\* The body of the loop over the edges: push_back on an existing key,
\* emplace_hint of a one-element vector before `it` otherwise.
add_edge(vertex_map, from, to) ==
    LET it == lower_bound(vertex_map, from, 1) IN
    IF it <= Len(vertex_map) /\ vertex_map[it][1] = from
    THEN [vertex_map EXCEPT ![it] = <<from, Append(vertex_map[it][2], to)>>]
    ELSE SubSeq(vertex_map, 1, it - 1) \o << <<from, <<to>> >> >>
         \o SubSeq(vertex_map, it, Len(vertex_map))

RECURSIVE edge_loop(_, _, _)
edge_loop(el, i, vertex_map) ==
    IF i > nrow(el) THEN vertex_map
    ELSE edge_loop(el, i + 1, add_edge(vertex_map, el.rows[i][1], el.rows[i][2]))

edgelist_to_adjacencylist(el) == edge_loop(el, 1, <<>>)

\* Every edge list of up to MaxEdges edges over the vertices 1..MaxVertex.
InitAdjacency ==
    /\ fn = "edgelist_to_adjacencylist"
    /\ \E n \in 0..MaxEdges :
          \E el \in Matrix(n, 2, 1..MaxVertex) : args = [el |-> el]
    /\ pc = "call"
    /\ ret = <<>>

CallAdjacency ==
    /\ fn = "edgelist_to_adjacencylist"
    /\ pc = "call"
    /\ ret' = edgelist_to_adjacencylist(args.el)
    /\ pc' = "done"
    /\ UNCHANGED <<fn, args>>

NextAdjacency == CallAdjacency

SpecAdjacency == InitAdjacency /\ [][NextAdjacency]_vars

----
\* Claims about edgelist_to_adjacencylist.

AdjacencyDone == fn = "edgelist_to_adjacencylist" /\ pc = "done"

\* The destinations of source s, in edge-list order, duplicates kept.
RECURSIVE DestinationsOf(_, _)
DestinationsOf(edges, s) ==
    IF edges = <<>> THEN <<>>
    ELSE (IF Head(edges)[1] = s THEN <<Head(edges)[2]>> ELSE <<>>)
         \o DestinationsOf(Tail(edges), s)

ExampleEdges == << <<1, 2>>, <<1, 3>>, <<2, 3>> >>

\* C6: the keys of the result are exactly the distinct sources of the edge
\* list, in ascending order, each with a non-empty list holding that source's
\* destinations in edge-list order with duplicates kept; the edge list
\* [(1,2),(1,3),(2,3)] yields {1: [2,3], 2: [3]}.
C6_Adjacency ==
    AdjacencyDone =>
        LET edges == args.el.rows IN
        /\ {ret[k][1] : k \in 1..Len(ret)} = {edges[i][1] : i \in 1..Len(edges)}
        /\ \A k \in 1..(Len(ret) - 1) : ret[k][1] < ret[k + 1][1]
        /\ \A k \in 1..Len(ret) :
              /\ ret[k][2] # <<>>
              /\ ret[k][2] = DestinationsOf(edges, ret[k][1])
        /\ (edges = ExampleEdges) => ret = << <<1, <<2, 3>> >>, <<2, <<3>> >> >>

\* The example edge list, converted.
C6_Witness ==
    /\ AdjacencyDone
    /\ args.el.rows = ExampleEdges
    /\ Len(ret) = 2

(***************************************************************************)
(* createCoverMap (cover.cpp 158-185).                                     *)
(*                                                                         *)
(* A level set's bounds are a 2 x d matrix: row 1 the minima (C++ row 0),  *)
(* row 2 the maxima (C++ row 1).  ls1 and ls2 are sequences of such        *)
(* matrices; the C++ index i of a box is its position minus one.           *)
(***************************************************************************)
MaxBoxes == 2

MaxCoord == 2

\* The test of line 174 for one dimension, strict on one side.
dim_intersect_strict(ls_bnds_i, ls_bnds_j, d_i) ==
    /\ ls_bnds_i.rows[1][d_i] < ls_bnds_j.rows[2][d_i]
    /\ ls_bnds_i.rows[2][d_i] >= ls_bnds_j.rows[1][d_i]

\* The test of line 174 for one dimension (d_i is the 1-based column).
dim_intersect(ls_bnds_i, ls_bnds_j, d_i) ==
    /\ ls_bnds_i.rows[1][d_i] <= ls_bnds_j.rows[2][d_i]
    /\ ls_bnds_i.rows[2][d_i] >= ls_bnds_j.rows[1][d_i]

\* A loop that tests the first dimension only.
all_intersect_first_dim_only(ls_bnds_i, ls_bnds_j, d, d_i) ==
    d >= 1 => dim_intersect(ls_bnds_i, ls_bnds_j, 1)

\* The loop of lines 173-175: stops at the first dimension that fails.
RECURSIVE all_intersect(_, _, _, _)
all_intersect(ls_bnds_i, ls_bnds_j, d, d_i) ==
    IF d_i > d THEN TRUE
    ELSE IF dim_intersect(ls_bnds_i, ls_bnds_j, d_i)
         THEN all_intersect(ls_bnds_i, ls_bnds_j, d, d_i + 1)
         ELSE FALSE

\* The loop over j of lines 169-177 for one i; i and j are the C++ indices,
\* pushed as they are.
RECURSIVE cover_map_row(_, _, _, _, _)
cover_map_row(ls1, ls2, d, i, j) ==
    IF j >= Len(ls2) THEN <<>>
    ELSE (IF all_intersect(ls1[i + 1], ls2[j + 1], d, 1) THEN << <<i, j>> >> ELSE <<>>)
         \o cover_map_row(ls1, ls2, d, i, j + 1)

createCoverMap(ls1, ls2, d) ==
    [ncol |-> 2,
     rows |-> Flatten([p \in 1..Len(ls1) |-> cover_map_row(ls1, ls2, d, p - 1, 0)])]

\* Valid boxes of dimension d: min <= max in every dimension.
Boxes(d) ==
    {b \in Matrix(2, d, 0..MaxCoord) : \A k \in 1..d : b.rows[1][k] <= b.rows[2][k]}

\* Covers of the line with up to MaxBoxes boxes each, and covers of the plane
\* with up to one box each.
InitCoverMap ==
    /\ fn = "createCoverMap"
    /\ \/ \E n1, n2 \in 0..MaxBoxes :
             \E ls1 \in [1..n1 -> Boxes(1)], ls2 \in [1..n2 -> Boxes(1)] :
                 args = [ls1 |-> ls1, ls2 |-> ls2, d |-> 1]
       \/ \E n1, n2 \in 0..1 :
             \E ls1 \in [1..n1 -> Boxes(2)], ls2 \in [1..n2 -> Boxes(2)] :
                 args = [ls1 |-> ls1, ls2 |-> ls2, d |-> 2]
    /\ pc = "call"
    /\ ret = <<>>

CallCoverMap ==
    /\ fn = "createCoverMap"
    /\ pc = "call"
    /\ ret' = createCoverMap(args.ls1, args.ls2, args.d)
    /\ pc' = "done"
    /\ UNCHANGED <<fn, args>>

NextCoverMap == CallCoverMap

SpecCoverMap == InitCoverMap /\ [][NextCoverMap]_vars

----
\* Claims about createCoverMap.

CoverMapDone == fn = "createCoverMap" /\ pc = "done"

\* The inclusive interval-overlap test of the two boxes in all d dimensions.
BoxesOverlap(a, b, d) ==
    \A k \in 1..d :
        a.rows[1][k] <= b.rows[2][k] /\ a.rows[2][k] >= b.rows[1][k]

LexLess(p, q) == p[1] < q[1] \/ (p[1] = q[1] /\ p[2] < q[2])

PairSet(m) == {m.rows[k] : k \in 1..nrow(m)}

\* C7: with i and j the positions of the boxes in their covers as the code
\* counts them (from 0), (i,j) is in the output iff box1[i] and box2[j] pass
\* the inclusive overlap test in every dimension; the rows are strictly
\* increasing in (i, j) order, so each pair appears once and the order is
\* cover-1-major, cover-2-minor.
C7_CoverMap ==
    CoverMapDone =>
        /\ PairSet(ret) =
              {<<i, j>> \in (0..(Len(args.ls1) - 1)) \X (0..(Len(args.ls2) - 1)) :
                  BoxesOverlap(args.ls1[i + 1], args.ls2[j + 1], args.d)}
        /\ \A k \in 1..(nrow(ret) - 1) : LexLess(ret.rows[k], ret.rows[k + 1])

\* Two covers of two boxes of the line of which exactly the pairs (0,1),
\* (1,0) and (1,1) overlap, listed in that order.
C7_Witness ==
    /\ CoverMapDone
    /\ args.d = 1
    /\ Len(args.ls1) = 2 /\ Len(args.ls2) = 2
    /\ ret.rows = << <<0, 1>>, <<1, 0>>, <<1, 1>> >>

\* C8: the pairs of createCoverMap(B, A, d) are exactly the transposed pairs
\* of createCoverMap(A, B, d).
C8_Symmetric ==
    CoverMapDone =>
        PairSet(createCoverMap(args.ls2, args.ls1, args.d))
            = {<<p[2], p[1]>> : p \in PairSet(ret)}

\* Covers of different sizes with a pair that touches only at an endpoint.
C8_Witness ==
    /\ CoverMapDone
    /\ Len(args.ls1) = 1 /\ Len(args.ls2) = 2
    /\ args.d = 1
    /\ args.ls1[1].rows[2][1] = args.ls2[2].rows[1][1]
    /\ <<0, 1>> \in PairSet(ret)
    /\ <<0, 0>> \notin PairSet(ret)

(***************************************************************************)
(* dist_to_boxes (cover.cpp 251-296).                                      *)
(*                                                                         *)
(* interval_length, dist_to_lower and dist_to_upper are doubles, positions *)
(* and num_intervals ints.  positions are drawn from 1 .. num_intervals:   *)
(* for any other position std::set_difference writes num_intervals         *)
(* elements into a buffer of num_intervals - 1.                            *)
(***************************************************************************)
MaxPositions == 2

MaxIntervals == 4

\* Decimal literals of the arguments, as fractions <<n, d>>.
IntervalLengths == {<<1, 2>>, <<1, 1>>}

Distances == {<<1, 5>>, <<3, 10>>}

\* std::abs of a double.
abs(v) == XAbs(v)

\* std::iota(begin, end, 1) over a vector of num_intervals elements.
all_positions(num_intervals) == [k \in 1..num_intervals |-> k]

\* std::set_difference of two sorted ranges, written to the output in order.
RECURSIVE set_difference(_, _)
set_difference(a, b) ==
    IF a = <<>> THEN <<>>
    ELSE IF b = <<>> THEN a
    ELSE IF Head(a) < Head(b) THEN <<Head(a)>> \o set_difference(Tail(a), b)
    ELSE IF Head(b) < Head(a) THEN set_difference(a, Tail(b))
    ELSE set_difference(Tail(a), Tail(b))

\* The lambda of lines 286-289: the int target_position - pos - 1 is
\* converted to double for the product.
target_distance(target_position, pos, interval_length, dtl, dtu) ==
    LET offset == abs(DMul(FromInt(target_position - pos - 1), interval_length)) IN
    IF target_position < pos THEN DAdd(dtl, offset) ELSE DAdd(dtu, offset)

\* The loop over the points; each row of the two results is one iteration.
dist_to_boxes(positions, interval_length, num_intervals, dist_to_lower, dist_to_upper) ==
    LET n == Len(positions)
        targets(i) == set_difference(all_positions(num_intervals), <<positions[i]>>)
    IN  [target_pos |->
            [ncol |-> num_intervals - 1, rows |-> [i \in 1..n |-> targets(i)]],
         target_dist |->
            [ncol |-> num_intervals - 1,
             rows |-> [i \in 1..n |->
                         [k \in 1..Len(targets(i)) |->
                             target_distance(targets(i)[k], positions[i], interval_length,
                                             dist_to_lower[i], dist_to_upper[i])]]]]

\* Up to MaxPositions points in a grid of 1 to MaxIntervals intervals.
InitDist ==
    /\ fn = "dist_to_boxes"
    /\ \E n \in 0..MaxPositions, num \in 1..MaxIntervals :
          args \in [positions : [1..n -> 1..num],
                    interval_length : {Literal(l) : l \in IntervalLengths},
                    num_intervals : {num},
                    dist_to_lower : [1..n -> {Literal(v) : v \in Distances}],
                    dist_to_upper : [1..n -> {Literal(v) : v \in Distances}]]
    /\ pc = "call"
    /\ ret = <<>>

CallDist ==
    /\ fn = "dist_to_boxes"
    /\ pc = "call"
    /\ ret' = dist_to_boxes(args.positions, args.interval_length, args.num_intervals,
                            args.dist_to_lower, args.dist_to_upper)
    /\ pc' = "done"
    /\ UNCHANGED <<fn, args>>

NextDist == CallDist

SpecDist == InitDist /\ [][NextDist]_vars

----
\* Claims about dist_to_boxes.

DistDone == fn = "dist_to_boxes" /\ pc = "done"

\* The ascending list of 1..num without pos.
RECURSIVE AscendingWithout(_, _, _)
AscendingWithout(k, num, pos) ==
    IF k > num THEN <<>>
    ELSE (IF k = pos THEN <<>> ELSE <<k>>) \o AscendingWithout(k + 1, num, pos)

\* The distance from the point to the facing boundary of its own bin plus the
\* widths of the whole bins between that boundary and the target bin.
FacingDistance(target, pos, len, dtl, dtu) ==
    IF target < pos THEN QAdd(QFrom(dtl), QMul(QInt(pos - target - 1), QFrom(len)))
    ELSE QAdd(QFrom(dtu), QMul(QInt(target - pos - 1), QFrom(len)))

ExampleDist ==
    /\ args.positions = <<2>>
    /\ args.interval_length = Literal(<<1, 1>>)
    /\ args.num_intervals = 4
    /\ args.dist_to_lower = <<Literal(<<1, 5>>)>>
    /\ args.dist_to_upper = <<Literal(<<3, 10>>)>>

\* C4 as stated: every target row is the ascending list of {1..numIntervals}
\* minus {pos}, every distance is, up to rounding, the distance to the facing
\* boundary of the point's bin plus the widths of the bins between, and
\* pos=2, intervalLength=1.0, numIntervals=4, distToLower=0.2, distToUpper=0.3
\* gives targets [1,3,4] and distances [0.2, 0.3, 1.3].
C4_AsStated ==
    DistDone =>
        /\ \A i \in 1..Len(args.positions) :
              /\ ret.target_pos.rows[i]
                    = AscendingWithout(1, args.num_intervals, args.positions[i])
              /\ \A k \in 1..(args.num_intervals - 1) :
                    UpToRounding(ret.target_dist.rows[i][k],
                                 FacingDistance(ret.target_pos.rows[i][k], args.positions[i],
                                                args.interval_length,
                                                args.dist_to_lower[i], args.dist_to_upper[i]))
        /\ ExampleDist
              => /\ ret.target_pos.rows = << <<1, 3, 4>> >>
                 /\ ret.target_dist.rows
                       = << <<Literal(<<1, 5>>), Literal(<<3, 10>>), Literal(<<13, 10>>)>> >>

\* What the code returns on the example of C4: targets [1,3,4] and distances
\* [2.2, 0.3, 1.3].
C4_ExampleAsComputed ==
    (DistDone /\ ExampleDist)
        => /\ ret.target_pos.rows = << <<1, 3, 4>> >>
           /\ ret.target_dist.rows
                 = << <<Literal(<<11, 5>>), Literal(<<3, 10>>), Literal(<<13, 10>>)>> >>

(***************************************************************************)
(* constructLevelSetIndex (cover.cpp 45-60) and                            *)
(* constructIsoAlignedLevelSets (cover.cpp 65-83).                         *)
(*                                                                         *)
(* The entries of x and bnds are doubles.  A row of bnds holds the d       *)
(* minima followed by the d maxima.  The sums and differences with eps of  *)
(* line 55 are rounded like every other double operation: next to 1 they   *)
(* are exact, from 2 on they are not.                                      *)
(***************************************************************************)
MaxPts == 2

MaxBins == 2

MaxPointCoord == 4

MaxCols == 2

\* std::numeric_limits<double>::epsilon() (line 50): 2^-52.
Eps == [s |-> 0, m |-> BShl(<<1>>, 52), e |-> -104]

\* The double nearest to o + k * 2^-52.
Coord(o, k) == DAdd(FromInt(o), DMul(FromInt(k), Eps))

\* The binades the coordinates are drawn from start at 1 (doubles are eps
\* apart) and at 2 (doubles are 2 eps apart).
Origins == {1, 2}

PointCoords == {Coord(o, k) : o \in Origins, k \in 0..MaxPointCoord}

BoundCoords == {Coord(o, k) : o \in Origins, k \in {0, 2}}

\* The guard of lines 46 and 66: int / int truncates.
dimension_mismatch(x, bnds) == x.ncol # (bnds.ncol \div 2)

\* Lines 54-56 for one point: the conjunction over the d dimensions of the
\* range test against the doubles ls_bnds[d_i] - eps and ls_bnds[d + d_i] + eps.
in_level_set_eps(pt, ls_bnds, d) ==
    \A d_i \in 1..d :
        /\ DLeq(DSub(ls_bnds[d_i], Eps), pt[d_i])
        /\ DLeq(pt[d_i], DAdd(ls_bnds[d + d_i], Eps))

\* Lines 73-75 for one point: the same test without slack.
in_level_set(pt, ls_bnds, d) ==
    \A d_i \in 1..d :
        DLeq(ls_bnds[d_i], pt[d_i]) /\ DLeq(pt[d_i], ls_bnds[d + d_i])

\* The loop of lines 51-58 from the C++ index i on: res[level_set_test] = i+1
\* overwrites whatever an earlier level set wrote.
RECURSIVE level_set_index_loop(_, _, _, _, _)
level_set_index_loop(x, bnds, d, i, res) ==
    IF i >= nrow(bnds) THEN res
    ELSE level_set_index_loop(x, bnds, d, i + 1,
             [p \in 1..nrow(x) |->
                 IF in_level_set_eps(x.rows[p], bnds.rows[i + 1], d)
                 THEN i + 1 ELSE res[p]])

\* The body after the guard: res starts as -1 for every point.
constructLevelSetIndex(x, bnds) ==
    level_set_index_loop(x, bnds, bnds.ncol \div 2, 0, [p \in 1..nrow(x) |-> -1])

\* which_true (lines 11-17): the 1-based positions of the true entries.
RECURSIVE which_true(_, _)
which_true(test, i) ==
    IF i > Len(test) THEN <<>>
    ELSE (IF test[i] THEN <<i>> ELSE <<>>) \o which_true(test, i + 1)

\* The body after the guard: one entry per level set, the indices of the
\* points inside it and, with save_bounds, its row of bnds as attribute.
constructIsoAlignedLevelSets(x, bnds, save_bounds) ==
    LET d == bnds.ncol \div 2 IN
    [i \in 1..nrow(bnds) |->
        [ls |-> which_true([p \in 1..nrow(x) |-> in_level_set(x.rows[p], bnds.rows[i], d)], 1),
         bounds |-> IF save_bounds THEN <<bnds.rows[i]>> ELSE <<>>]]

\* A call of either function on the points x and the bounds bnds.
IndexerCall(x, bnds) ==
    \/ fn = "constructLevelSetIndex" /\ args = [x |-> x, bnds |-> bnds]
    \/ /\ fn = "constructIsoAlignedLevelSets"
       /\ \E sb \in BOOLEAN : args = [x |-> x, bnds |-> bnds, save_bounds |-> sb]

\* Points and boxes of the line; one point and one box of the plane; and one
\* all-zero point with one all-zero row of bounds for every pair of widths,
\* for the guard.
InitIndexer ==
    /\ \/ \E m \in 0..MaxPts, n \in 0..MaxBins :
             \E x \in Matrix(m, 1, PointCoords), bnds \in Matrix(n, 2, BoundCoords) :
                 IndexerCall(x, bnds)
       \/ \E x \in Matrix(1, 2, PointCoords), bnds \in Matrix(1, 4, {Coord(o, 2) : o \in Origins}) :
             IndexerCall(x, bnds)
       \/ \E xc \in 1..MaxCols, bc \in 0..(2 * MaxCols + 1) :
             \E x \in Matrix(1, xc, {Zero}), bnds \in Matrix(1, bc, {Zero}) :
                 IndexerCall(x, bnds)
    /\ pc = "call"
    /\ ret = <<>>

LevelSetIndexStop ==
    /\ fn = "constructLevelSetIndex"
    /\ pc = "call"
    /\ dimension_mismatch(args.x, args.bnds)
    /\ pc' = "stopped"
    /\ UNCHANGED <<fn, args, ret>>

LevelSetIndexReturn ==
    /\ fn = "constructLevelSetIndex"
    /\ pc = "call"
    /\ ~dimension_mismatch(args.x, args.bnds)
    /\ ret' = constructLevelSetIndex(args.x, args.bnds)
    /\ pc' = "done"
    /\ UNCHANGED <<fn, args>>

IsoAlignedStop ==
    /\ fn = "constructIsoAlignedLevelSets"
    /\ pc = "call"
    /\ dimension_mismatch(args.x, args.bnds)
    /\ pc' = "stopped"
    /\ UNCHANGED <<fn, args, ret>>

IsoAlignedReturn ==
    /\ fn = "constructIsoAlignedLevelSets"
    /\ pc = "call"
    /\ ~dimension_mismatch(args.x, args.bnds)
    /\ ret' = constructIsoAlignedLevelSets(args.x, args.bnds, args.save_bounds)
    /\ pc' = "done"
    /\ UNCHANGED <<fn, args>>

NextIndexer ==
    \/ LevelSetIndexStop
    \/ LevelSetIndexReturn
    \/ IsoAlignedStop
    \/ IsoAlignedReturn

SpecIndexer == InitIndexer /\ [][NextIndexer]_vars

----
\* Claims about constructLevelSetIndex and constructIsoAlignedLevelSets.

LevelSetIndexDone == fn = "constructLevelSetIndex" /\ pc = "done"

\* Point pt lies in the box of row b of bnds widened by eps on every side,
\* in every one of the dims dimensions, in exact arithmetic.
WithinTolerance(pt, b, dims) ==
    \A k \in 1..dims :
        XLeq(XSub(b[k], Eps), pt[k]) /\ XLeq(pt[k], XAdd(b[dims + k], Eps))

\* C1 as stated: the id of a point is the last bin, in cover order, whose box
\* widened by one epsilon contains the point in every dimension, and -1 when
\* no bin does; so no point is assigned a bin that does not contain it within
\* one epsilon.
C1_AsStated ==
    LevelSetIndexDone =>
        LET dims == args.x.ncol
            Matching(p) == {b \in 1..nrow(args.bnds) :
                               WithinTolerance(args.x.rows[p], args.bnds.rows[b], dims)}
        IN  /\ Len(ret) = nrow(args.x)
            /\ \A p \in 1..nrow(args.x) :
                  /\ (Matching(p) = {}) => ret[p] = -1
                  /\ (Matching(p) # {}) =>
                        /\ ret[p] \in Matching(p)
                        /\ \A b \in Matching(p) : b <= ret[p]

\* The id of a point is the last bin whose box contains it under the test of
\* the code, with the bounds lo - eps and hi + eps rounded to doubles.
LastMatchWinsAsComputed ==
    LevelSetIndexDone =>
        LET dims == args.x.ncol
            Matching(p) == {b \in 1..nrow(args.bnds) :
                               in_level_set_eps(args.x.rows[p], args.bnds.rows[b], dims)}
        IN  \A p \in 1..nrow(args.x) :
                /\ (Matching(p) = {}) => ret[p] = -1
                /\ (Matching(p) # {}) =>
                      /\ ret[p] \in Matching(p)
                      /\ \A b \in Matching(p) : b <= ret[p]

\* The point 2 + 4 eps is given the bin [2, 2 + 2 eps], two epsilons below it.
TwoEpsilonsAccepted ==
    /\ LevelSetIndexDone
    /\ args.x.rows = << <<Coord(2, 4)>> >>
    /\ args.bnds.rows = << <<Coord(2, 0), Coord(2, 2)>> >>
    /\ ret = <<1>>

\* C9 as stated: a call whose number of point columns is not bounds-width / 2,
\* for even and odd widths alike, stops with the error and returns nothing;
\* a call whose dimensions agree does not stop.
C9_AsStated ==
    (fn \in {"constructLevelSetIndex", "constructIsoAlignedLevelSets"} /\ pc # "call") =>
        /\ (2 * args.x.ncol # args.bnds.ncol) => (pc = "stopped" /\ ret = <<>>)
        /\ (2 * args.x.ncol = args.bnds.ncol) => pc = "done"

(***************************************************************************)
(* constructFixedLevelSets (cover.cpp 86-121).                             *)
(*                                                                         *)
(* filter_values, overlap, filter_range and filter_len hold doubles,       *)
(* index_set and number_intervals hold ints.  overlap is drawn below 1,    *)
(* the only values for which line 100 does not divide by zero.             *)
(***************************************************************************)
MaxFixedBins == 2

MaxFixedPts == 1

MaxIndex == 2

\* as<NumericVector>(number_intervals) and as<NumericVector>(ls_idx).
as_double(i) == FromInt(i)

\* Line 98.
base_interval_length(filter_len, number_intervals) ==
    DDiv(filter_len, as_double(number_intervals))

\* Line 100 with the division by (1 - overlap) left out.
interval_length_no_division(base, overlap) ==
    DAdd(base, DMul(base, overlap))

\* Line 100.
interval_length(base, overlap) ==
    DAdd(base, DDiv(DMul(base, overlap), DSub(FromInt(1), overlap)))

\* Line 107 with the entry of index_set used as it is.
level_set_centroid_zero_based(filter_min, index, base) ==
    DAdd(DAdd(filter_min, DMul(as_double(index), base)), DDiv(base, FromInt(2)))

\* Lines 104 and 107: ls_idx is the entry of index_set minus one.
level_set_centroid(filter_min, index, base) ==
    LET ls_idx == index - 1 IN
    DAdd(DAdd(filter_min, DMul(as_double(ls_idx), base)), DDiv(base, FromInt(2)))

\* Lines 108-109 for the level set of one row of index_set, from the vectors
\* of lines 98-102: the 2 x d matrix of minima (row 1) and maxima (row 2).
fixed_bounds(index_row, filter_min, base, eps) ==
    LET d == Len(index_row)
        centroid == [k \in 1..d |-> level_set_centroid(filter_min[k], index_row[k], base[k])]
    IN  [ncol |-> d,
         rows |-> << [k \in 1..d |-> DSub(centroid[k], eps[k])],
                     [k \in 1..d |-> DAdd(centroid[k], eps[k])] >>]

\* Lines 112-115 for one point: inclusive range test in every dimension.
in_fixed_level_set(pt, ls_bnds) ==
    \A d_i \in 1..ls_bnds.ncol :
        /\ DLeq(ls_bnds.rows[1][d_i], pt[d_i])
        /\ DLeq(pt[d_i], ls_bnds.rows[2][d_i])

constructFixedLevelSets(filter_values, index_set, overlap, number_intervals, filter_range, filter_len) ==
    LET d == index_set.ncol
        base == [k \in 1..d |-> base_interval_length(filter_len[k], number_intervals[k])]
        filter_min == filter_range.rows[1]
        eps == [k \in 1..d |-> DDiv(interval_length(base[k], overlap[k]), FromInt(2))]
    IN  [i \in 1..nrow(index_set) |->
            LET ls_bnds == fixed_bounds(index_set.rows[i], filter_min, base, eps)
            IN  [points_in_level_set |->
                    which_true([p \in 1..nrow(filter_values) |->
                                   in_fixed_level_set(filter_values.rows[p], ls_bnds)], 1),
                 bounds |-> ls_bnds]]

\* Decimal literals of the arguments, as fractions <<n, d>>.
Overlaps == {<<0, 1>>, <<1, 5>>, <<1, 2>>}

\* Grids of one dimension, as <<minimum, length, number of intervals>>: the
\* base length of the first is the double 2, that of the second, 3/10, is
\* no double.
Grids == {<<0, 10, 5>>, <<3, 3, 10>>}

FilterValues == {<<3, 5>>, <<3, 1>>}

\* The filter range of one dimension from its minimum and length.
FilterRange(mins, lens) ==
    [ncol |-> Len(mins),
     rows |-> << [k \in 1..Len(mins) |-> FromInt(mins[k])],
                 [k \in 1..Len(mins) |-> FromInt(mins[k] + lens[k])] >>]

\* Every grid of the line over the parameter sets above, and grids of one or
\* two bins of the plane with every pair of overlaps.
InitFixed ==
    /\ fn = "constructFixedLevelSets"
    /\ \/ \E m \in 0..MaxFixedPts, n \in 0..MaxFixedBins, g \in Grids :
             args \in [filter_values : Matrix(m, 1, {Literal(v) : v \in FilterValues}),
                       index_set : Matrix(n, 1, 0..MaxIndex),
                       overlap : {<<Literal(o)>> : o \in Overlaps},
                       number_intervals : {<<g[3]>>},
                       filter_range : {FilterRange(<<g[1]>>, <<g[2]>>)},
                       filter_len : {<<FromInt(g[2])>>}]
       \/ \E n \in {1, 2} :
             args \in [filter_values : Matrix(1, 2, {Literal(v) : v \in FilterValues}),
                       index_set : Matrix(n, 2, {1, 2}),
                       overlap : {<<Literal(o1), Literal(o2)>> : o1, o2 \in Overlaps},
                       number_intervals : {<<5, 10>>},
                       filter_range : {FilterRange(<<0, 3>>, <<10, 3>>)},
                       filter_len : {<<FromInt(10), FromInt(3)>>}]
    /\ pc = "call"
    /\ ret = <<>>

CallFixed ==
    /\ fn = "constructFixedLevelSets"
    /\ pc = "call"
    /\ ret' = constructFixedLevelSets(args.filter_values, args.index_set, args.overlap,
                                      args.number_intervals, args.filter_range,
                                      args.filter_len)
    /\ pc' = "done"
    /\ UNCHANGED <<fn, args>>

NextFixed == CallFixed

SpecFixed == InitFixed /\ [][NextFixed]_vars

----
\* Claims about constructFixedLevelSets.

FixedDone == fn = "constructFixedLevelSets" /\ pc = "done"

\* baseLength = filterLen / numIntervals in dimension k.
BaseLength(k) == QDiv(QFrom(args.filter_len[k]), QInt(args.number_intervals[k]))

\* halfWidth = (baseLength + baseLength*overlap/(1-overlap)) / 2.
HalfWidth(k) ==
    QDiv(QAdd(BaseLength(k),
              QDiv(QMul(BaseLength(k), QFrom(args.overlap[k])),
                   QSub(QInt(1), QFrom(args.overlap[k])))),
         QInt(2))

\* Bins a and b are grid-adjacent along k: b is one step above a in
\* dimension k and they agree elsewhere.
Adjacent(a, b, k) ==
    /\ args.index_set.rows[b][k] = args.index_set.rows[a][k] + 1
    /\ \A j \in 1..args.index_set.ncol :
          j # k => args.index_set.rows[b][j] = args.index_set.rows[a][j]

\* The width of the overlap of adjacent bins a (lower) and b (upper) along k.
OverlapWidth(a, b, k) ==
    XSub(ret[a].bounds.rows[2][k], ret[b].bounds.rows[1][k])

\* C2 as stated: grid-adjacent bins overlap along the dimension in which
\* they differ by overlap * baseLength, up to rounding.
C2_AsStated ==
    FixedDone =>
        \A a, b \in 1..Len(ret) : \A k \in 1..args.index_set.ncol :
            Adjacent(a, b, k) =>
                UpToRounding(OverlapWidth(a, b, k),
                             QMul(QFrom(args.overlap[k]), BaseLength(k)))

\* C2 amended: grid-adjacent bins overlap along the dimension in which they
\* differ by baseLength * overlap / (1 - overlap), which is overlap times
\* the full interval length baseLength / (1 - overlap), up to rounding.
C2_Amended ==
    FixedDone =>
        \A a, b \in 1..Len(ret) : \A k \in 1..args.index_set.ncol :
            Adjacent(a, b, k) =>
                /\ UpToRounding(OverlapWidth(a, b, k),
                                QDiv(QMul(BaseLength(k), QFrom(args.overlap[k])),
                                     QSub(QInt(1), QFrom(args.overlap[k]))))
                /\ UpToRounding(OverlapWidth(a, b, k),
                                QMul(QFrom(args.overlap[k]),
                                     QFrom(XSub(ret[a].bounds.rows[2][k],
                                                ret[a].bounds.rows[1][k]))))

\* Two bins of the plane adjacent along the second dimension, with a nonzero
\* overlap there and a base length, 3/10, that is no double.
C2_Witness ==
    /\ FixedDone
    /\ args.index_set.ncol = 2
    /\ Len(ret) = 2
    /\ Adjacent(1, 2, 2)
    /\ args.overlap[2] = Literal(<<1, 5>>)
    /\ OverlapWidth(1, 2, 2) # Zero

ExampleFixed ==
    /\ args.filter_range.rows = << <<FromInt(0)>>, <<FromInt(10)>> >>
    /\ args.filter_len = <<FromInt(10)>>
    /\ args.number_intervals = <<5>>
    /\ args.overlap = <<Literal(<<1, 5>>)>>

\* The bounds [-0.25, 2.25] and [1.75, 4.25], which are doubles.
ExampleBounds ==
    /\ ret[1].bounds.rows = << <<Literal(<<-1, 4>>)>>, <<Literal(<<9, 4>>)>> >>
    /\ ret[2].bounds.rows = << <<Literal(<<7, 4>>)>>, <<Literal(<<17, 4>>)>> >>

\* C3 as stated: the entries of indexSet are grid coordinates counted from 0,
\* the centroid of a bin is filterMin + gridCoord*baseLength + baseLength/2
\* and its bounds are the centroid minus/plus halfWidth, up to rounding; for
\* filterRange [0,10], numIntervals 5, overlap 0.2 and indexSet [[0],[1]] the
\* bounds are [-0.25, 2.25] and [1.75, 4.25].
C3_AsStated ==
    FixedDone =>
        /\ \A i \in 1..Len(ret) : \A k \in 1..args.index_set.ncol :
              LET centroid == QAdd(QAdd(QFrom(args.filter_range.rows[1][k]),
                                        QMul(QInt(args.index_set.rows[i][k]),
                                             BaseLength(k))),
                                   QDiv(BaseLength(k), QInt(2)))
              IN  /\ UpToRounding(ret[i].bounds.rows[1][k], QSub(centroid, HalfWidth(k)))
                  /\ UpToRounding(ret[i].bounds.rows[2][k], QAdd(centroid, HalfWidth(k)))
        /\ (ExampleFixed /\ args.index_set.rows = << <<0>>, <<1>> >>) => ExampleBounds

\* C3 amended: the entries of index_set are grid indices counted from 1, the
\* centroid of a bin is filterMin + (index - 1)*baseLength + baseLength/2 and
\* its bounds are the centroid minus/plus halfWidth, up to rounding; for
\* filterRange [0,10], numIntervals 5, overlap 0.2 the bounds [-0.25, 2.25]
\* and [1.75, 4.25] are those of index_set [[1],[2]].
C3_Amended ==
    FixedDone =>
        /\ \A i \in 1..Len(ret) : \A k \in 1..args.index_set.ncol :
              LET centroid == QAdd(QAdd(QFrom(args.filter_range.rows[1][k]),
                                        QMul(QInt(args.index_set.rows[i][k] - 1),
                                             BaseLength(k))),
                                   QDiv(BaseLength(k), QInt(2)))
              IN  /\ UpToRounding(ret[i].bounds.rows[1][k], QSub(centroid, HalfWidth(k)))
                  /\ UpToRounding(ret[i].bounds.rows[2][k], QAdd(centroid, HalfWidth(k)))
        /\ (ExampleFixed /\ args.index_set.rows = << <<1>>, <<2>> >>) => ExampleBounds

\* The example grid with index_set [[1],[2]], built.
C3_Witness ==
    /\ FixedDone
    /\ ExampleFixed
    /\ args.index_set.rows = << <<1>>, <<2>> >>
    /\ ExampleBounds

----
\* C10 as stated: every bin id returned is 1-based: the pairs (i,j) of
\* createCoverMap over covers of n1 and n2 boxes satisfy 1 <= i <= n1 and
\* 1 <= j <= n2, and every assigned id of constructLevelSetIndex over n bins
\* lies in 1..n.
C10_AsStated ==
    /\ CoverMapDone =>
          \A k \in 1..nrow(ret) :
              /\ 1 <= ret.rows[k][1] /\ ret.rows[k][1] <= Len(args.ls1)
              /\ 1 <= ret.rows[k][2] /\ ret.rows[k][2] <= Len(args.ls2)
    /\ LevelSetIndexDone =>
          \A p \in 1..Len(ret) : ret[p] # -1 => ret[p] \in 1..nrow(args.bnds)

(***************************************************************************)
(* The kernel as a whole: a call of any of the functions above.            *)
(***************************************************************************)
Init ==
    \/ InitValidPairs
    \/ InitAdjacency
    \/ InitCoverMap
    \/ InitDist
    \/ InitIndexer
    \/ InitFixed

Next ==
    \/ CallValidPairs
    \/ CallAdjacency
    \/ CallCoverMap
    \/ CallDist
    \/ LevelSetIndexStop
    \/ LevelSetIndexReturn
    \/ IsoAlignedStop
    \/ IsoAlignedReturn
    \/ CallFixed

Spec == Init /\ [][Next]_vars

====
